---- MODULE Spec2Model ----
(***************************************************************************)
(* Model of scripts/fetch_and_update.py: the feed poller that merges new   *)
(* feed entries into data.json, enriches them through the extraction       *)
(* service, filters by cutoff date, sorts and saves.                       *)
(*                                                                         *)
(* Python str values that the program inspects (dates, links, ids) are     *)
(* tuples of one-character strings; opaque texts are TLA+ strings.         *)
(***************************************************************************)
EXTENDS Integers, Sequences, FiniteSets, TLC

(***************************************************************************)
(* Characters and str operations                                           *)
(***************************************************************************)

\* the ASCII characters from " " (32) to "z" (122), in code order; a character
\* the model never writes is named by its code ("c33" is "!")
Ascii ==
  <<
     " ", "c33", "c34", "c35", "c36", "c37", "c38", "c39", "c40", "c41", "c42", "+",
     ",", "-", ".", "/", "0", "1", "2", "3", "4", "5", "6", "7",
     "8", "9", ":", "c59", "c60", "c61", "c62", "c63", "c64", "A", "B", "C",
     "D", "E", "F", "G", "H", "I", "J", "K", "L", "M", "N", "O",
     "P", "Q", "R", "S", "T", "U", "V", "W", "X", "Y", "Z", "c91",
     "c92", "c93", "c94", "_", "c96", "a", "b", "c", "d", "e", "f", "g",
     "h", "i", "j", "k", "l", "m", "n", "o", "p", "q", "r", "s",
     "t", "u", "v", "w", "x", "y", "z" >>

Chars == { Ascii[i] : i \in 1..Len(Ascii) }

\* ord(c)
Code == [ c \in Chars |-> 31 + (CHOOSE i \in 1..Len(Ascii) : Ascii[i] = c) ]

Digits == << "0", "1", "2", "3", "4", "5", "6", "7", "8", "9" >>

\* int(c) of a digit character, -1 for any other character
DigitVal ==
  [ c \in Chars |->
      IF \E i \in 1..10 : Digits[i] = c
      THEN (CHOOSE i \in 1..10 : Digits[i] = c) - 1
      ELSE -1 ]

\* s < t for Python str (lexicographic by code point)
RECURSIVE StrLess(_, _)
StrLess(s, t) ==
  IF t = << >> THEN FALSE
  ELSE IF s = << >> THEN TRUE
  ELSE IF Head(s) = Head(t) THEN StrLess(Tail(s), Tail(t))
  ELSE Code[Head(s)] < Code[Head(t)]

\* the decimal value of s[i..j], or -1 when a character is no digit (int() raises)
RECURSIVE Num(_, _, _)
Num(s, i, j) ==
  IF i > j THEN 0
  ELSE IF DigitVal[s[j]] < 0 THEN -1
  ELSE LET rest == Num(s, i, j - 1)
       IN  IF rest < 0 THEN -1 ELSE rest * 10 + DigitVal[s[j]]

\* n formatted with leading zeros to `width` digits ("%02d", "%04d")
RECURSIVE Pad(_, _)
Pad(n, width) ==
  IF width = 0 THEN << >>
  ELSE Append(Pad(n \div 10, width - 1), Digits[(n % 10) + 1])

(***************************************************************************)
(* datetime values: [ymd |-> <<y, m, d>>, hms |-> <<h, mi, s>>,             *)
(* tzinfo |-> the UTC offset text, << >> for a naive datetime]              *)
(***************************************************************************)

None == [none |-> TRUE]

MonthNames ==
  << <<"J","a","n">>, <<"F","e","b">>, <<"M","a","r">>, <<"A","p","r">>,
     <<"M","a","y">>, <<"J","u","n">>, <<"J","u","l">>, <<"A","u","g">>,
     <<"S","e","p">>, <<"O","c","t">>, <<"N","o","v">>, <<"D","e","c">> >>

DaysInMonth(y, m) ==
  IF m \in {4, 6, 9, 11} THEN 30
  ELSE IF m # 2 THEN 31
  ELSE IF (y % 4 = 0 /\ y % 100 # 0) \/ y % 400 = 0 THEN 29 ELSE 28

ValidDate(y, m, d) ==
  /\ y >= 1 /\ y <= 9999
  /\ m >= 1 /\ m <= 12
  /\ d >= 1 /\ d <= DaysInMonth(y, m)

ValidTime(h, mi, s) ==
  /\ h >= 0 /\ h <= 23
  /\ mi >= 0 /\ mi <= 59
  /\ s >= 0 /\ s <= 59

MkDatetime(y, m, d, h, mi, s, tz) ==
  IF ValidDate(y, m, d) /\ ValidTime(h, mi, s)
  THEN [ymd |-> <<y, m, d>>, hms |-> <<h, mi, s>>, tzinfo |-> tz]
  ELSE None

\* datetime.fromisoformat: YYYY-MM-DD, YYYY-MM-DD?HH:MM:SS, and the latter
\* followed by +HH:MM or -HH:MM; anything else raises ValueError (None here)
FromIsoFormat(s) ==
  LET n == Len(s)
      dateOk == n >= 10 /\ s[5] = "-" /\ s[8] = "-"
      timeOk == n >= 19 /\ s[14] = ":" /\ s[17] = ":"
      zoneOk == n = 25 /\ s[20] \in {"+", "-"} /\ s[23] = ":"
                       /\ Num(s, 21, 22) \in 0..23 /\ Num(s, 24, 25) \in 0..59
  IN  IF n = 10 /\ dateOk
      THEN MkDatetime(Num(s, 1, 4), Num(s, 6, 7), Num(s, 9, 10), 0, 0, 0, << >>)
      ELSE IF n = 19 /\ dateOk /\ timeOk
      THEN MkDatetime(Num(s, 1, 4), Num(s, 6, 7), Num(s, 9, 10),
                      Num(s, 12, 13), Num(s, 15, 16), Num(s, 18, 19), << >>)
      ELSE IF n = 25 /\ dateOk /\ timeOk /\ zoneOk
      THEN MkDatetime(Num(s, 1, 4), Num(s, 6, 7), Num(s, 9, 10),
                      Num(s, 12, 13), Num(s, 15, 16), Num(s, 18, 19),
                      SubSeq(s, 20, 25))
      ELSE None

\* email.utils.parsedate_to_datetime on the RFC 2822 layout the feeds emit,
\* "Dow, DD Mon YYYY HH:MM:SS +ZZZZ"; anything else raises (None here)
ParseDateToDatetime(s) ==
  LET layoutOk == /\ Len(s) = 31
                  /\ s[4] = "," /\ s[5] = " " /\ s[8] = " " /\ s[12] = " "
                  /\ s[17] = " " /\ s[20] = ":" /\ s[23] = ":" /\ s[26] = " "
                  /\ s[27] \in {"+", "-"} /\ Num(s, 28, 31) >= 0
                  /\ \E m \in 1..12 : MonthNames[m] = SubSeq(s, 9, 11)
  IN  IF ~layoutOk THEN None
      ELSE MkDatetime(Num(s, 13, 16),
                      CHOOSE m \in 1..12 : MonthNames[m] = SubSeq(s, 9, 11),
                      Num(s, 6, 7),
                      Num(s, 18, 19), Num(s, 21, 22), Num(s, 24, 25),
                      SubSeq(s, 27, 31))

\* parse_date: ISO first, then the e-mail header form, else None
parse_date(date_str) ==
  IF date_str = << >> THEN None
  ELSE LET iso == FromIsoFormat(date_str)
       IN  IF iso # None THEN iso ELSE ParseDateToDatetime(date_str)

\* published_dt.replace(tzinfo=None) when tzinfo is set: the clock time is kept
StripTz(dt) ==
  IF dt = None THEN None
  ELSE [ymd |-> dt.ymd, hms |-> dt.hms, tzinfo |-> << >>]

\* a < b for naive datetimes
DtLess(a, b) ==
  LET x == a.ymd \o a.hms
      y == b.ymd \o b.hms
  IN  \E i \in 1..6 : x[i] < y[i] /\ \A j \in 1..(i - 1) : x[j] = y[j]

\* dt.date().isoformat()
DateIso(dt) ==
  Pad(dt.ymd[1], 4) \o <<"-">> \o Pad(dt.ymd[2], 2) \o <<"-">> \o Pad(dt.ymd[3], 2)

\* dt.isoformat() of a naive datetime with no microseconds
DtIso(dt) ==
  DateIso(dt) \o <<"T">> \o Pad(dt.hms[1], 2) \o <<":">> \o Pad(dt.hms[2], 2)
              \o <<":">> \o Pad(dt.hms[3], 2)

(***************************************************************************)
(* make_article_id                                                         *)
(***************************************************************************)

\* the size of the identifier space of the model (uuid5(...).hex[:8] has 2^32 values)
HashSpace == 13

\* the number of hex digits kept of the uuid
IdHexLen == 8

HexDigits ==
  << "0", "1", "2", "3", "4", "5", "6", "7", "8", "9", "a", "b", "c", "d", "e", "f" >>

RECURSIVE Hex(_, _)
Hex(n, width) ==
  IF width = 0 THEN << >>
  ELSE Append(Hex(n \div 16, width - 1), HexDigits[(n % 16) + 1])

\* uuid.uuid5(uuid.NAMESPACE_URL, base): a deterministic digest of the characters
\* of base, here a polynomial checksum folded into HashSpace values
RECURSIVE Digest(_, _)
Digest(base, n) ==
  IF n = 0 THEN 7
  ELSE (Digest(base, n - 1) * 31 + Code[base[n]]) % HashSpace

Uuid5(base) == Digest(base, Len(base))

make_article_id(url, published_dt) ==
  LET base == url \o (IF published_dt # None THEN DtIso(published_dt) ELSE << >>)
  IN  <<"a", "r", "t", "_">> \o Hex(Uuid5(base), IdHexLen)

(***************************************************************************)
(* JSON objects (Python dict with str keys): functions from a set of keys. *)
(* id, url, published_at are character tuples, title, source, summary are  *)
(* opaque texts, the remaining fields are lists.                           *)
(***************************************************************************)

EmptyDict == << >>

\* d.get(k, default)
Get(d, k, default) == IF k \in DOMAIN d THEN d[k] ELSE default

\* d[k] = v
SetItem(d, k, v) == [x \in DOMAIN d \cup {k} |-> IF x = k THEN v ELSE d[x]]

\* d.setdefault(k, v)
SetDefault(d, k, v) == IF k \in DOMAIN d THEN d ELSE SetItem(d, k, v)

\* mutant of DictHas: the key is compared with the url of the values
DictHasByUrl(d, k) == \E i \in 1..Len(d) : Get(d[i].v, "url", << >>) = k

\* id_to_article: an insertion-ordered dict, as the sequence of its items [k, v]
DictHas(d, k) == \E i \in 1..Len(d) : d[i].k = k

DictSet(d, k, v) ==
  IF DictHas(d, k)
  THEN [i \in 1..Len(d) |-> IF d[i].k = k THEN [k |-> k, v |-> v] ELSE d[i]]
  ELSE Append(d, [k |-> k, v |-> v])

DictValues(d) == [i \in 1..Len(d) |-> d[i].v]

\* {a.get("id"): a for a in existing_articles if a.get("id")}
RECURSIVE IndexById(_)
IndexById(existing_articles) ==
  IF existing_articles = << >> THEN << >>
  ELSE LET n    == Len(existing_articles)
           a    == existing_articles[n]
           rest == IndexById(SubSeq(existing_articles, 1, n - 1))
       IN  IF Get(a, "id", << >>) # << >> THEN DictSet(rest, a["id"], a) ELSE rest

(***************************************************************************)
(* call_openai_for_article: from the HTTP response to the parsed object    *)
(***************************************************************************)

\* Tokens of the model's message text.  A "members" token stands for the
\* key/value text of the JSON object ServiceOutputs[v]; a "text" token is prose.
Fence  == [t |-> "fence", v |-> 0]
Text   == [t |-> "text", v |-> 0]
LBrace == [t |-> "lbrace", v |-> 0]
RBrace == [t |-> "rbrace", v |-> 0]
Members(v) == [t |-> "members", v |-> v]

\* the objects the extraction service answers with
ServiceOutputs ==
  << \* 1: the empty object, every key omitted
     EmptyDict,
     \* 2: every key present, the values the service does not know left blank
     [ id |-> << >>, title |-> "Launch", url |-> << >>, source |-> "",
       published_at |-> << >>, summary |-> "",
       categories |-> << >>, campaign_types |-> << >>, demo_tags |-> << >>,
       psych_tags |-> << >>, stakeholders |-> << >>, outreach_templates |-> << >> ],
     \* 3: its own id, and the date in the e-mail header form: Sat, 01 Nov 2025
     [ id |-> <<"x">>, title |-> "Launch", url |-> <<"x", "/", "s">>, source |-> "Wire",
       published_at |-> <<"S","a","t",","," ","0","1"," ","N","o","v"," ","2","0","2","5",
                          " ","0","8",":","0","0",":","0","0"," ","+","0","0","0","0">>,
       summary |-> "s", categories |-> <<"other_cpg">>,
       campaign_types |-> <<"product_launch">>, demo_tags |-> << >>,
       psych_tags |-> << >>, stakeholders |-> << >>, outreach_templates |-> << >> ] >>

\* the lines of content after content.strip() and the removal of a leading
\* and a trailing ``` line
StripFences(lines) ==
  IF lines # << >> /\ lines[1] # << >> /\ lines[1][1] = Fence
  THEN LET l1 == Tail(lines)
       IN  IF l1 # << >> /\ l1[Len(l1)] # << >> /\ l1[Len(l1)][1] = Fence
           THEN SubSeq(l1, 1, Len(l1) - 1)
           ELSE l1
  ELSE lines

\* "\n".join(lines)
RECURSIVE Join(_)
Join(lines) == IF lines = << >> THEN << >> ELSE Head(lines) \o Join(Tail(lines))

\* content.find("{") and content.rfind("}"), 0 for Python's -1
Find(content, tok) ==
  IF \E i \in 1..Len(content) : content[i] = tok
  THEN CHOOSE i \in 1..Len(content) :
         content[i] = tok /\ \A j \in 1..(i - 1) : content[j] # tok
  ELSE 0

RFind(content, tok) ==
  IF \E i \in 1..Len(content) : content[i] = tok
  THEN CHOOSE i \in 1..Len(content) :
         content[i] = tok /\ \A j \in (i + 1)..Len(content) : content[j] # tok
  ELSE 0

Raised == [raised |-> TRUE]

\* json.loads(json_text): an object, or Raised for JSONDecodeError
JsonLoads(json_text) ==
  IF json_text = <<LBrace, RBrace>> THEN [raised |-> FALSE, value |-> EmptyDict]
  ELSE IF /\ Len(json_text) = 3
          /\ json_text[1] = LBrace /\ json_text[3] = RBrace
          /\ json_text[2].t = "members" /\ json_text[2].v \in 1..Len(ServiceOutputs)
  THEN [raised |-> FALSE, value |-> ServiceOutputs[json_text[2].v]]
  ELSE Raised

\* resp is what requests.post gave: [ok |-> FALSE] when the call or
\* raise_for_status raises, else [ok |-> TRUE, content |-> lines of the message]
call_openai_for_article(resp) ==
  IF ~resp.ok THEN Raised
  ELSE LET content == Join(StripFences(resp.content))
           start   == Find(content, LBrace)
           end     == RFind(content, RBrace)
       IN  IF start = 0 \/ end = 0 THEN Raised
           ELSE JsonLoads(SubSeq(content, start, end))

\* the HTTP outcomes of the model
Responses ==
  { [ok |-> FALSE, content |-> << >>],
    [ok |-> TRUE, content |-> << <<Text>> >>],
    [ok |-> TRUE, content |-> << <<LBrace, Text, RBrace>> >>],
    [ok |-> TRUE, content |-> << <<LBrace, RBrace>> >>],
    [ok |-> TRUE, content |-> << <<Fence, Text>>, <<LBrace, Members(2), RBrace>>, <<Fence>> >>],
    [ok |-> TRUE, content |-> << <<Text, LBrace, Members(3), RBrace, Text>> >>] }

(***************************************************************************)
(* The environment: configuration, feeds, article pages                    *)
(***************************************************************************)

\* RSS_FEEDS, two of the configured feed addresses
RSS_FEEDS == << "https://www.bevnet.com/feed", "https://www.nosh.com/feed" >>

\* CUTOFF_DATE_STR as the source sets it
CUTOFF_DATE_STR == <<"2","0","0","0","-","0","1","-","0","1">>

\* the values CUTOFF_DATE_STR is edited to between runs: the one above, and 2025-12-01
CutoffStrs ==
  { CUTOFF_DATE_STR, <<"2","0","2","5","-","1","2","-","0","1">> }

\* the longest entry list one retrieval of a feed delivers
MaxEntries == 2

LinkA == <<"x", "/", "a">>
LinkB == <<"x", "/", "b">>

\* entries as feedparser exposes them; an absent field is the empty value
EntryOnCutoff ==
  [ title |-> "A", link |-> LinkA, updated |-> << >>,
    published |-> <<"2","0","2","5","-","1","2","-","0","1">> ]

EntryNoLink ==
  [ title |-> "N", link |-> << >>, updated |-> << >>,
    published |-> <<"2","0","2","5","-","1","2","-","0","3">> ]

EntryRfc ==
  [ title |-> "B", link |-> LinkB, updated |-> << >>,
    published |-> <<"S","u","n",","," ","3","0"," ","N","o","v"," ","2","0","2","5",
                    " ","0","9",":","3","0",":","0","0"," ","+","0","1","0","0">> ]

EntryNoDate ==
  [ title |-> "D", link |-> LinkB, published |-> << >>,
    updated |-> <<"s","o","o","n">> ]

EntryUpdatedOnly ==
  [ title |-> "U", link |-> LinkA, published |-> << >>,
    updated |-> <<"2","0","2","5","-","1","2","-","0","2","T","0","7",":","1","5",":","0","0">> ]

\* what each feed holds: the feed's title and its entries, newest first
FeedDocs ==
  << [ title |-> "BevNET", entries |-> <<EntryRfc, EntryNoLink, EntryOnCutoff>> ],
     [ title |-> "", entries |-> <<EntryRfc, EntryNoDate, EntryUpdatedOnly>> ] >>

FeedDoc(i) == FeedDocs[((i - 1) % Len(FeedDocs)) + 1]

\* feedparser.parse(feed_url): a window of at most MaxEntries consecutive entries of
\* the feed, or, when the retrieval fails, a result that is flagged (bozo) and has no
\* entries and no feed title; parse does not raise
FeedResults(i) ==
  { [ bozo |-> TRUE, title |-> "", entries |-> << >> ] }
  \cup { [ bozo |-> FALSE, title |-> FeedDoc(i).title,
           entries |-> SubSeq(FeedDoc(i).entries, w[1], w[2]) ] :
           w \in { v \in (1..Len(FeedDoc(i).entries)) \X (1..Len(FeedDoc(i).entries)) :
                      v[1] <= v[2] /\ v[2] - v[1] < MaxEntries } }

\* requests.get(url): the call or raise_for_status raises, or a page text is returned
HttpGets ==
  { [ok |-> FALSE, text |-> ""], [ok |-> TRUE, text |-> "<html>"] }

fetch_article_body(url, http) ==
  IF url = << >> THEN ""
  ELSE IF http.ok THEN http.text ELSE ""

(***************************************************************************)
(* State                                                                   *)
(***************************************************************************)

VARIABLES
  file,               \* data.json: [exists, decodes, valid, doc]
  OPENAI_API_KEY,     \* the environment entry the running (or last) process read
  cutoff,             \* CUTOFF_DATE_STR of the running (or last) process
  pc,                 \* "idle": no process has run, or the last one returned from main();
                      \* "feeds": main() is in its feed loop; "exited": line 32 ended
                      \* the last process; "crashed": an exception ended it
  data,               \* main: data
  existing_articles,  \* main: existing_articles
  id_to_article,      \* main: id_to_article
  new_articles,       \* main: new_articles
  feed_idx,           \* main: the index in RSS_FEEDS of the next feed to fetch
  parsed,             \* main: parsed, with the entries the inner loop has not visited yet
  last,               \* what the latest iteration of the entry loop did
  printed,            \* the count in the summary line of the last completed run
  hist                \* observations across runs (Spec records none)

vars ==
  << file, OPENAI_API_KEY, cutoff, pc, data, existing_articles, id_to_article,
     new_articles, feed_idx, parsed, last, printed, hist >>

\* the variables of the program
prog ==
  << file, OPENAI_API_KEY, cutoff, pc, data, existing_articles, id_to_article,
     new_articles, feed_idx, parsed, last, printed >>

\* data.json is absent
NoFile ==
  [exists |-> FALSE, decodes |-> FALSE, valid |-> FALSE, doc |-> [articles |-> << >>]]

\* data.json holds text that is not JSON, such as a document cut off between two
\* characters
CorruptFile ==
  [exists |-> TRUE, decodes |-> TRUE, valid |-> FALSE, doc |-> [articles |-> << >>]]

\* data.json holds bytes that are not UTF-8 text, such as a document cut off inside
\* a multi-byte character (save_data writes non-ASCII characters as they are)
UndecodableFile ==
  [exists |-> TRUE, decodes |-> FALSE, valid |-> FALSE, doc |-> [articles |-> << >>]]

\* the environment of a process: OPENAI_API_KEY unset, set to "", or set to a key
Environs ==
  { [set |-> FALSE, value |-> ""], [set |-> TRUE, value |-> ""],
    [set |-> TRUE, value |-> "sk-test"] }

\* mutant of MissingCredential: the check of lines 31-32 is missing
MissingCredentialIgnored(key) == FALSE

\* `not OPENAI_API_KEY` (line 31): os.environ.get gave None or ""
MissingCredential(key) == ~key.set \/ key.value = ""

NoIteration ==
  [ step |-> "none", entry |-> EntryNoLink, source |-> "", id |-> << >>, fetched |-> FALSE,
    body |-> "", called |-> FALSE, raised |-> FALSE, output |-> EmptyDict,
    added |-> EmptyDict ]

NoFeed == [bozo |-> FALSE, title |-> "", entries |-> << >>]

\* CUTOFF_DATE
CUTOFF_DATE == FromIsoFormat(cutoff)

\* load_existing_data raises: f.read() in json.load (line 42) raises
\* UnicodeDecodeError, which `except json.JSONDecodeError` (line 43) does not catch
LoadRaises(f) == f.exists /\ ~f.decodes

\* load_existing_data, when it returns
load_existing_data(f) ==
  IF f.exists
  THEN IF f.valid THEN f.doc ELSE [articles |-> << >>]
  ELSE [articles |-> << >>]

\* save_data: the whole document overwrites data.json
save_data(d) == [exists |-> TRUE, decodes |-> TRUE, valid |-> TRUE, doc |-> d]

(***************************************************************************)
(* main: one iteration of the entry loop (lines 201-257)                   *)
(***************************************************************************)

\* mutant of Reconcile: line 244 is missing, the id of the service stays
ReconcileKeepingServiceId(article_json, article_id, link, source, published_dt) ==
  LET a1  == SetDefault(article_json, "id", article_id)
      a3  == SetDefault(a1, "url", link)
      a4  == SetDefault(a3, "source", source)
      a5  == SetDefault(a4, "published_at", DateIso(published_dt))
      a6  == SetDefault(a5, "summary", "")
      a7  == SetDefault(a6, "categories", << >>)
      a8  == SetDefault(a7, "campaign_types", << >>)
      a9  == SetDefault(a8, "demo_tags", << >>)
      a10 == SetDefault(a9, "psych_tags", << >>)
      a11 == SetDefault(a10, "stakeholders", << >>)
  IN  SetDefault(a11, "outreach_templates", << >>)

\* lines 242-254: the fields of article_json after the assignments
Reconcile(article_json, article_id, link, source, published_dt) ==
  LET a1  == SetDefault(article_json, "id", article_id)
      a2  == SetItem(a1, "id", article_id)
      a3  == SetDefault(a2, "url", link)
      a4  == SetDefault(a3, "source", source)
      a5  == SetDefault(a4, "published_at", DateIso(published_dt))
      a6  == SetDefault(a5, "summary", "")
      a7  == SetDefault(a6, "categories", << >>)
      a8  == SetDefault(a7, "campaign_types", << >>)
      a9  == SetDefault(a8, "demo_tags", << >>)
      a10 == SetDefault(a9, "psych_tags", << >>)
      a11 == SetDefault(a10, "stakeholders", << >>)
  IN  SetDefault(a11, "outreach_templates", << >>)

\* mutant of MissingLink: the check of lines 204-205 is missing
MissingLinkIgnored(link) == FALSE

\* whether the link check ends the iteration (lines 203-205)
MissingLink(link) == link = << >>

\* whether an empty body ends the iteration (lines 233-234)
SkipsEmptyBody(body_html) == body_html = ""

\* mutant of AlreadyProcessed: the dedup check is missing
AlreadyProcessedNever(index, article_id) == FALSE

\* mutant of AlreadyProcessed: the check looks at the loaded store, not at the
\* collection as it grows
AlreadyProcessedInLoadedStore(index, article_id) ==
  \E i \in 1..Len(existing_articles) : Get(existing_articles[i], "id", << >>) = article_id

\* whether the dedup check ends the iteration (lines 221-223)
AlreadyProcessed(index, article_id) == DictHas(index, article_id)

\* The iteration for `entry` of a feed titled feed_title, with the collection
\* `index`, when the page request answers http and the service request answers resp.
Iteration(entry, feed_title, index, cutoff_date, http, resp) ==
  LET link          == entry.link
      source        == IF feed_title # "" THEN feed_title ELSE "Unknown"
      published_raw == IF entry.published # << >> THEN entry.published ELSE entry.updated
      parsed_dt     == parse_date(published_raw)
      published_dt  == IF parsed_dt # None /\ parsed_dt.tzinfo # << >>
                       THEN StripTz(parsed_dt) ELSE parsed_dt
      article_id    == make_article_id(link, published_dt)
      body_html     == fetch_article_body(link, http)
      result        == call_openai_for_article(resp)
      base          == [NoIteration EXCEPT !.entry = entry, !.source = source]
  IN  IF MissingLink(link) THEN [base EXCEPT !.step = "no_link"]
      ELSE IF published_dt = None THEN [base EXCEPT !.step = "no_date"]
      ELSE IF DtLess(published_dt, cutoff_date) THEN [base EXCEPT !.step = "before_cutoff"]
      ELSE IF AlreadyProcessed(index, article_id)
      THEN [base EXCEPT !.step = "already_processed", !.id = article_id]
      ELSE IF SkipsEmptyBody(body_html)
      THEN [base EXCEPT !.step = "no_body", !.id = article_id, !.fetched = TRUE]
      ELSE IF result.raised
      THEN [base EXCEPT !.step = "openai_error", !.id = article_id, !.fetched = TRUE,
                        !.body = body_html, !.called = TRUE, !.raised = TRUE]
      ELSE [base EXCEPT !.step = "added", !.id = article_id, !.fetched = TRUE,
                        !.body = body_html, !.called = TRUE, !.output = result.value,
                        !.added = Reconcile(result.value, article_id, link, source,
                                            published_dt)]

(***************************************************************************)
(* main: the filter, the sort and the save (lines 259-278)                 *)
(***************************************************************************)

\* mutant of KeepsArticle: the comparison with the cutoff is missing
KeepsArticleParsedOnly(art, cutoff_date) ==
  parse_date(Get(art, "published_at", << >>)) # None

\* mutant of KeepsArticle: pd > CUTOFF_DATE instead of pd >= CUTOFF_DATE
KeepsArticleStrictlyAfter(art, cutoff_date) ==
  LET pd == StripTz(parse_date(Get(art, "published_at", << >>)))
  IN  pd # None /\ DtLess(cutoff_date, pd)

\* lines 264-270: whether art stays
KeepsArticle(art, cutoff_date) ==
  LET pd0 == parse_date(Get(art, "published_at", << >>))
      pd  == IF pd0 # None /\ pd0.tzinfo # << >> THEN StripTz(pd0) ELSE pd0
  IN  pd # None /\ ~DtLess(pd, cutoff_date)

RECURSIVE Filter(_, _)
Filter(all_articles, cutoff_date) ==
  IF all_articles = << >> THEN << >>
  ELSE LET n    == Len(all_articles)
           rest == Filter(SubSeq(all_articles, 1, n - 1), cutoff_date)
       IN  IF KeepsArticle(all_articles[n], cutoff_date)
           THEN Append(rest, all_articles[n]) ELSE rest

\* the key of the sort
SortKey(a) == Get(a, "published_at", << >>)

\* list.sort(key=..., reverse=True): descending, equal keys keep their order
RECURSIVE SortDescending(_)
SortDescending(list) ==
  IF list = << >> THEN << >>
  ELSE LET n      == Len(list)
           x      == list[n]
           sorted == SortDescending(SubSeq(list, 1, n - 1))
           before == { i \in 1..Len(sorted) : ~StrLess(SortKey(sorted[i]), SortKey(x)) }
           k      == Cardinality(before)
       IN  SubSeq(sorted, 1, k) \o <<x>> \o SubSeq(sorted, k + 1, Len(sorted))

(***************************************************************************)
(* Actions                                                                 *)
(***************************************************************************)

InitProg ==
  /\ file \in {NoFile, CorruptFile, UndecodableFile}
  /\ OPENAI_API_KEY = [set |-> FALSE, value |-> ""]
  /\ cutoff = CUTOFF_DATE_STR
  /\ pc = "idle"
  /\ data = [articles |-> << >>]
  /\ existing_articles = << >>
  /\ id_to_article = << >>
  /\ new_articles = << >>
  /\ feed_idx = 1
  /\ parsed = NoFeed
  /\ last = NoIteration
  /\ printed = 0

\* no process is running
Halted == pc \in {"idle", "exited", "crashed"}

\* A process starts with CUTOFF_DATE_STR = c in the environment env: the module
\* body runs (lines 25-32), then main() up to the feed loop (lines 189-195).
Start(c, env) ==
  /\ Halted
  /\ cutoff' = c
  /\ OPENAI_API_KEY' = env
  /\ IF MissingCredential(env)
     THEN /\ pc' = "exited"
          /\ UNCHANGED << data, existing_articles, id_to_article, new_articles,
                          feed_idx, parsed, last >>
     ELSE IF LoadRaises(file)
     THEN /\ pc' = "crashed"
          /\ UNCHANGED << data, existing_articles, id_to_article, new_articles,
                          feed_idx, parsed, last >>
     ELSE /\ pc' = "feeds"
          /\ data' = load_existing_data(file)
          /\ existing_articles' = Get(data', "articles", << >>)
          /\ id_to_article' = IndexById(existing_articles')
          /\ new_articles' = << >>
          /\ feed_idx' = 1
          /\ parsed' = NoFeed
          /\ last' = NoIteration
  /\ UNCHANGED << file, printed >>

\* mutant of FetchFeed: a failed retrieval ends the feed loop
FetchFeedBreakOnFailure(result) ==
  /\ pc = "feeds"
  /\ parsed.entries = << >>
  /\ feed_idx <= Len(RSS_FEEDS)
  /\ parsed' = result
  /\ feed_idx' = IF result.bozo THEN Len(RSS_FEEDS) + 1 ELSE feed_idx + 1
  /\ UNCHANGED << file, OPENAI_API_KEY, cutoff, pc, data, existing_articles,
                  id_to_article, new_articles, last, printed >>

\* The outer loop takes the next feed (lines 197-199).
FetchFeed(result) ==
  /\ pc = "feeds"
  /\ parsed.entries = << >>
  /\ feed_idx <= Len(RSS_FEEDS)
  /\ parsed' = result
  /\ feed_idx' = feed_idx + 1
  /\ UNCHANGED << file, OPENAI_API_KEY, cutoff, pc, data, existing_articles,
                  id_to_article, new_articles, last, printed >>

\* mutant of ProcessEntry: an entry whose body fetch or extraction call failed is
\* tried again
ProcessEntryRetrying(http, resp) ==
  /\ pc = "feeds"
  /\ parsed.entries # << >>
  /\ LET it == Iteration(Head(parsed.entries), parsed.title, id_to_article,
                         CUTOFF_DATE, http, resp)
     IN  /\ last' = it
         /\ IF it.step = "added"
            THEN /\ id_to_article' = DictSet(id_to_article, it.added["id"], it.added)
                 /\ new_articles' = Append(new_articles, it.added)
            ELSE UNCHANGED << id_to_article, new_articles >>
         /\ parsed' = IF it.step \in {"no_body", "openai_error"} THEN parsed
                      ELSE [parsed EXCEPT !.entries = Tail(parsed.entries)]
  /\ UNCHANGED << file, OPENAI_API_KEY, cutoff, pc, data, existing_articles, feed_idx,
                  printed >>

\* The inner loop handles the next entry (lines 201-257).
ProcessEntry(http, resp) ==
  /\ pc = "feeds"
  /\ parsed.entries # << >>
  /\ LET it == Iteration(Head(parsed.entries), parsed.title, id_to_article,
                         CUTOFF_DATE, http, resp)
     IN  /\ last' = it
         /\ IF it.step = "added"
            THEN /\ id_to_article' = DictSet(id_to_article, it.added["id"], it.added)
                 /\ new_articles' = Append(new_articles, it.added)
            ELSE UNCHANGED << id_to_article, new_articles >>
  /\ parsed' = [parsed EXCEPT !.entries = Tail(parsed.entries)]
  /\ UNCHANGED << file, OPENAI_API_KEY, cutoff, pc, data, existing_articles, feed_idx,
                  printed >>

\* After the last feed: filter, sort, save, print the summary (lines 259-278).
Finish ==
  /\ pc = "feeds"
  /\ parsed.entries = << >>
  /\ feed_idx > Len(RSS_FEEDS)
  /\ LET all_articles == DictValues(id_to_article)
         filtered     == SortDescending(Filter(all_articles, CUTOFF_DATE))
     IN  /\ data' = SetItem(data, "articles", filtered)
         /\ file' = save_data(data')
  /\ printed' = Len(new_articles)
  /\ pc' = "idle"
  /\ UNCHANGED << OPENAI_API_KEY, cutoff, existing_articles, id_to_article,
                  new_articles, feed_idx, parsed, last >>

(***************************************************************************)
(* Actions of the program alone                                            *)
(***************************************************************************)

NoPrev == [feeds |-> << >>, calls |-> {}, saved |-> << >>]

NoHist ==
  [ mode |-> "off", runs |-> 0, feeds |-> << >>, calls |-> {}, prev |-> NoPrev,
    failed |-> {}, retry |-> {}, enriched |-> {} ]

Init == InitProg /\ hist = NoHist

Next ==
  \/ \E c \in CutoffStrs, env \in Environs : Start(c, env) /\ UNCHANGED hist
  \/ \E result \in FeedResults(feed_idx) : FetchFeed(result) /\ UNCHANGED hist
  \/ \E http \in HttpGets, resp \in Responses : ProcessEntry(http, resp) /\ UNCHANGED hist
  \/ Finish /\ UNCHANGED hist

Spec == Init /\ [][Next]_vars

\* a step of the running process
Step ==
  \/ \E result \in FeedResults(feed_idx) : FetchFeed(result) /\ UNCHANGED hist
  \/ \E http \in HttpGets, resp \in Responses : ProcessEntry(http, resp) /\ UNCHANGED hist
  \/ Finish /\ UNCHANGED hist

\* main() is in its feed loop or at the filter: its next step can be taken
Running == pc = "feeds"

\* A process that runs keeps running: parse, requests.get and requests.post return
\* or raise (the timeouts of lines 76 and 159), they do not hang.  This is
\* WF_vars(Step) with ENABLED <<Step>>_vars written out as Running.
Fairness == []<>(~Running) \/ []<><<Step>>_vars

SpecFair == Spec /\ Fairness

(***************************************************************************)
(* Runs that are repeated.  The last run of a behaviour of SpecReplay      *)
(* (hist.mode = "compare") is given the cutoff, the feed results and the   *)
(* answers of the run before it (hist.mode = "recorded"); the runs before  *)
(* these two are free (hist.mode = "free").                                *)
(***************************************************************************)

\* the number of runs in one behaviour of SpecReplay
MaxRuns == 3

\* what fetch_article_body and call_openai_for_article answered to main for an entry
Answer(it) ==
  [ entry |-> it.entry, body |-> it.body, called |-> it.called,
    raised |-> it.raised, output |-> it.output ]

Agrees(answer, calls) == \A x \in calls : x.entry = answer.entry => x = answer

ReplayStart(c, env) ==
  LET m == IF hist.runs + 2 < MaxRuns THEN "free"
           ELSE IF hist.runs + 2 = MaxRuns THEN "recorded" ELSE "compare"
  IN  /\ hist.runs < MaxRuns
      /\ m = "compare" => (c = cutoff /\ env = OPENAI_API_KEY)
      /\ hist' = [ hist EXCEPT
                   !.mode  = m,
                   !.runs  = hist.runs + 1,
                   !.feeds = << >>,
                   !.calls = {},
                   !.prev  = IF m = "compare"
                             THEN [feeds |-> hist.feeds, calls |-> hist.calls,
                                   saved |-> file.doc.articles]
                             ELSE NoPrev ]

ReplayFeed(result) ==
  /\ hist.mode = "compare" => result = hist.prev.feeds[Len(hist.feeds) + 1]
  /\ hist' = IF hist.mode = "free" THEN hist
             ELSE [hist EXCEPT !.feeds = Append(hist.feeds, result)]

ReplayEntry ==
  /\ (hist.mode = "compare" /\ last'.fetched) => Agrees(Answer(last'), hist.prev.calls)
  /\ hist' = IF hist.mode # "free" /\ last'.fetched
             THEN [hist EXCEPT !.calls = hist.calls \cup {Answer(last')}]
             ELSE hist

NextReplay ==
  \/ \E c \in CutoffStrs, env \in Environs : Start(c, env) /\ ReplayStart(c, env)
  \/ \E result \in FeedResults(feed_idx) : FetchFeed(result) /\ ReplayFeed(result)
  \/ \E http \in HttpGets, resp \in Responses : ProcessEntry(http, resp) /\ ReplayEntry
  \/ Finish /\ UNCHANGED hist

SpecReplay == Init /\ [][NextReplay]_vars

(***************************************************************************)
(* Entries whose extraction failed.  In SpecRetry hist.failed holds the    *)
(* entries of the current run for which call_openai_for_article raised,    *)
(* hist.retry those of the run before that its save did not store.         *)
(***************************************************************************)

RetryStart == hist' = [hist EXCEPT !.mode = "retry", !.failed = {}]

RetryEntry ==
  hist' = IF last'.step = "openai_error"
          THEN [hist EXCEPT !.failed = hist.failed \cup {[entry |-> last'.entry,
                                                          id |-> last'.id]}]
          ELSE hist

RetryFinish ==
  hist' = [ hist EXCEPT
            !.retry = { f \in hist.failed :
                          \A i \in 1..Len(file'.doc.articles) :
                            Get(file'.doc.articles[i], "id", << >>) # f.id } ]

NextRetry ==
  \/ \E c \in CutoffStrs, env \in Environs : Start(c, env) /\ RetryStart
  \/ \E result \in FeedResults(feed_idx) : FetchFeed(result) /\ UNCHANGED hist
  \/ \E http \in HttpGets, resp \in Responses : ProcessEntry(http, resp) /\ RetryEntry
  \/ Finish /\ RetryFinish

SpecRetry == Init /\ [][NextRetry]_vars

(***************************************************************************)
(* Identifiers that were enriched.  In SpecOnce hist.enriched holds the    *)
(* ids of the articles that the completed runs added since the cutoff was  *)
(* last changed.                                                           *)
(***************************************************************************)

OnceStart(c) ==
  hist' = [ hist EXCEPT !.mode = "once",
                        !.enriched = IF c = cutoff THEN hist.enriched ELSE {} ]

OnceFinish ==
  hist' = [ hist EXCEPT
            !.enriched = hist.enriched
                           \cup { Get(new_articles[i], "id", << >>) :
                                    i \in 1..Len(new_articles) } ]

NextOnce ==
  \/ \E c \in CutoffStrs, env \in Environs : Start(c, env) /\ OnceStart(c)
  \/ \E result \in FeedResults(feed_idx) : FetchFeed(result) /\ UNCHANGED hist
  \/ \E http \in HttpGets, resp \in Responses : ProcessEntry(http, resp) /\ UNCHANGED hist
  \/ Finish /\ OnceFinish

SpecOnce == Init /\ [][NextOnce]_vars

(***************************************************************************)
(* Properties                                                              *)
(***************************************************************************)

\* the keys of the Article schema (lines 93-124)
ArticleKeys ==
  { "id", "title", "url", "source", "published_at", "summary", "categories",
    "campaign_types", "demo_tags", "psych_tags", "stakeholders", "outreach_templates" }

\* the article list in data.json
Saved == file.doc.articles

\* a run of main() has completed and no other is under way
RunCompleted == pc = "idle" /\ file.valid

InSeq(a, list) == \E i \in 1..Len(list) : list[i] = a

IdsOf(list) == { Get(list[i], "id", << >>) : i \in 1..Len(list) }

\* the published instant of a stored article, timezone stripped; None if unparseable
PublishedInstant(a) == StripTz(parse_date(Get(a, "published_at", << >>)))

OnOrAfterCutoff(a) ==
  PublishedInstant(a) # None /\ ~DtLess(PublishedInstant(a), CUTOFF_DATE)

\* C2. After every completed run each saved article has a published_at that parses
\* and is on or after the cutoff of that run, also the articles that were in the
\* store when the run loaded it; a loaded article dated exactly on the cutoff is kept.
CutoffInvariant ==
  RunCompleted =>
    /\ \A i \in 1..Len(Saved) : OnOrAfterCutoff(Saved[i])
    /\ \A i \in 1..Len(existing_articles) :
         PublishedInstant(existing_articles[i]) = CUTOFF_DATE
           => InSeq(existing_articles[i], Saved)

\* a run under the raised cutoff has dropped a stored article dated before it and
\* has kept a stored article dated exactly on it
CutoffRaisedWitness ==
  /\ RunCompleted
  /\ cutoff # CUTOFF_DATE_STR
  /\ \E i \in 1..Len(existing_articles) :
       /\ PublishedInstant(existing_articles[i]) # None
       /\ DtLess(PublishedInstant(existing_articles[i]), CUTOFF_DATE)
       /\ ~InSeq(existing_articles[i], Saved)
  /\ \E i \in 1..Len(existing_articles) :
       /\ PublishedInstant(existing_articles[i]) = CUTOFF_DATE
       /\ InSeq(existing_articles[i], Saved)

SchemaCompleteness ==
  \A i \in 1..Len(new_articles) : ArticleKeys \subseteq DOMAIN new_articles[i]

\* C5. An article that was in the loaded store and is in the saved (and in the
\* in-memory) collection is unchanged, and an entry whose identifier is already in
\* the collection causes no body fetch and no extraction call.
NoInPlaceUpdate ==
  /\ \A i \in 1..Len(existing_articles), j \in 1..Len(id_to_article) :
       Get(existing_articles[i], "id", << >>) = id_to_article[j].k
         => id_to_article[j].v = existing_articles[i]
  /\ RunCompleted =>
       \A i \in 1..Len(existing_articles), j \in 1..Len(Saved) :
         Get(existing_articles[i], "id", << >>) = Get(Saved[j], "id", << >>)
           => Saved[j] = existing_articles[i]
  /\ last.step = "already_processed" => ~last.fetched /\ ~last.called

\* a completed run whose last entry had the identifier of a loaded article, which
\* is saved again
NoInPlaceUpdateWitness ==
  /\ RunCompleted
  /\ last.step = "already_processed"
  /\ \E i \in 1..Len(existing_articles) :
       /\ Get(existing_articles[i], "id", << >>) = last.id
       /\ InSeq(existing_articles[i], Saved)

SortOrder ==
  RunCompleted =>
    \A i \in 1..(Len(Saved) - 1) :
      ~DtLess(PublishedInstant(Saved[i]), PublishedInstant(Saved[i + 1]))

\* C9. When the body fetch of an entry that passed the link, date, cutoff and dedup
\* checks returns the empty string, the extraction service is still called.
BodyFailureNeverAborts ==
  (last.fetched /\ last.body = "") => last.called

\* a field the service left blank: the key absent or the empty string
Blank(d, k, empty) == Get(d, k, empty) = empty

\* C10. A url, source or published_at the service left blank carries the locally
\* known value in the added record.
BlankFieldReconciliation ==
  last.step = "added" =>
    /\ Blank(last.output, "url", << >>) => last.added["url"] = last.entry.link
    /\ Blank(last.output, "source", "") => last.added["source"] = last.source
    /\ Blank(last.output, "published_at", << >>)
         => last.added["published_at"] =
              DateIso(StripTz(parse_date(IF last.entry.published # << >>
                                         THEN last.entry.published
                                         ELSE last.entry.updated)))

\* C1. When a run is repeated with the same cutoff, the same feed content and the
\* same answers of the body fetch and the extraction service, the second run saves
\* the collection the first run saved.
IdempotentMerge ==
  (pc = "idle" /\ hist.mode = "compare") => Saved = hist.prev.saved

\* the identifier of the latest iteration was added by an earlier iteration of the run
AddedEarlier ==
  \E i \in 1..(Len(new_articles) - (IF last.step = "added" THEN 1 ELSE 0)) :
    Get(new_articles[i], "id", << >>) = last.id

\* C8. A failed extraction call adds no record and does not end the run, and in the
\* next run the entry, when it comes up to the dedup check and no earlier iteration
\* of that run added it, is not found in the collection and the service is called.
ExtractionFailureIsSkipWithRetry ==
  /\ last.step = "openai_error" =>
       /\ ~DictHas(id_to_article, last.id)
       /\ pc = "idle" => file.valid /\ last.id \notin IdsOf(Saved)
  /\ ( /\ pc = "feeds"
       /\ \E f \in hist.retry : f.entry = last.entry
       /\ last.step \notin {"none", "no_link", "no_date", "before_cutoff"}
       /\ ~AddedEarlier )
     => (last.step # "already_processed" /\ last.called)

\* the identifier main computes for an entry (lines 208-220)
LocalId(entry) ==
  make_article_id(entry.link,
                  StripTz(parse_date(IF entry.published # << >> THEN entry.published
                                     ELSE entry.updated)))

\* C11. The id of a record added after a successful extraction, and the key under
\* which it is put in the collection, is the identifier computed from the entry's
\* link and normalized published instant, whatever id the service returned.
IdentityIsLocal ==
  last.step = "added" =>
    /\ last.added["id"] = LocalId(last.entry)
    /\ \E j \in 1..Len(id_to_article) :
         id_to_article[j].k = LocalId(last.entry) /\ id_to_article[j].v = last.added
    /\ \A j \in 1..Len(id_to_article) :
         id_to_article[j].v = last.added => id_to_article[j].k = LocalId(last.entry)

\* a record was added although the service returned an id of its own
IdentityIsLocalWitness ==
  /\ last.step = "added"
  /\ "id" \in DOMAIN last.output
  /\ last.output["id"] # last.added["id"]

\* C12. When data.json is absent or does not hold valid JSON, load_existing_data
\* returns {articles: []} instead of raising, and main() goes on from the empty
\* collection: no process ends with an exception on such a file.
MalformedStoreRecovery ==
  (~file.exists \/ ~file.valid) =>
    /\ pc # "crashed"
    /\ pc = "feeds" => (data = [articles |-> << >>] /\ existing_articles = << >>)

\* the environment the process read holds no credential
CredentialAbsent == ~OPENAI_API_KEY.set \/ OPENAI_API_KEY.value = ""

\* C14. A process whose environment lacks the credential ends at line 32: it leaves
\* data.json and everything main() would assign as they were, and nothing happens
\* after it until another process starts.
MissingCredentialIsFatal ==
  [][ /\ (Halted /\ CredentialAbsent') =>
          /\ pc' = "exited"
          /\ UNCHANGED << file, data, existing_articles, id_to_article, new_articles,
                          feed_idx, parsed, last, printed >>
      /\ pc = "exited" => (file' = file /\ pc' \in {"exited", "feeds", "crashed"})
    ]_vars

\* a process without the credential has ended and the store an earlier run saved
\* is still there
MissingCredentialIsFatalWitness ==
  /\ pc = "exited"
  /\ CredentialAbsent
  /\ file.valid
  /\ Len(Saved) >= 1

\* C13. The iteration for a feed entry whose link is absent or empty adds nothing to
\* the collection, fetches no body and calls no extraction, whatever the entry's
\* other fields are.
MissingLinkSkip ==
  [][ (pc = "feeds" /\ parsed.entries # << >> /\ Head(parsed.entries).link = << >>) =>
        /\ last'.entry = Head(parsed.entries)
        /\ ~last'.fetched /\ ~last'.called
        /\ UNCHANGED << id_to_article, new_articles, file >>
    ]_vars

\* an entry without link, with a title and a published date on or after the
\* cutoff, has been skipped
MissingLinkSkipWitness ==
  /\ last.step = "no_link"
  /\ last.entry.title # ""
  /\ parse_date(last.entry.published) # None
  /\ ~DtLess(parse_date(last.entry.published), CUTOFF_DATE)

\* the positions in the saved list of the articles that were not in the loaded store
SavedNew ==
  { j \in 1..Len(Saved) : Get(Saved[j], "id", << >>) \notin IdsOf(existing_articles) }

\* C15. The count main() prints at the end of a run is the number of articles
\* that are in the saved collection and were not in the store the run loaded.
RunSummaryCount ==
  RunCompleted => printed = Cardinality(SavedNew)

\* C16. Once an iteration of a run has added an article, every later iteration of
\* the run that computes the same identifier is skipped at the dedup check without
\* body fetch or extraction call, and the articles a run adds have distinct ids.
InRunDeduplication ==
  /\ \A i, j \in 1..Len(new_articles) :
       i # j => Get(new_articles[i], "id", << >>) # Get(new_articles[j], "id", << >>)
  /\ ( /\ last.step \notin {"none", "no_link", "no_date", "before_cutoff"}
       /\ AddedEarlier )
     => (last.step = "already_processed" /\ ~last.fetched /\ ~last.called)

\* an entry was skipped because an earlier iteration of the same run, not the
\* loaded store, had put its identifier in the collection
InRunDeduplicationWitness ==
  /\ pc = "feeds"
  /\ last.step = "already_processed"
  /\ AddedEarlier
  /\ last.id \notin IdsOf(existing_articles)

\* the retrieval of feed number i of RSS_FEEDS has just failed
FeedFailed(i) == pc = "feeds" /\ parsed.bozo /\ feed_idx = i + 1

\* C17. A feed whose retrieval fails contributes no entries; after it the loop takes
\* the next feed of the list (the feeds are taken in list order), and the run
\* reaches the filter, the sort and the save.
FeedFailureIsolation ==
  /\ [](parsed.bozo => parsed.entries = << >>)
  /\ [][(pc = "feeds" /\ feed_idx' # feed_idx) => feed_idx' = feed_idx + 1]_vars
  /\ [][(pc = "feeds" /\ parsed.bozo /\ pc' = "feeds") =>
          (UNCHANGED << id_to_article, new_articles >> /\ feed_idx' = feed_idx + 1)]_vars
  /\ \A i \in 1..(Len(RSS_FEEDS) - 1) :
       FeedFailed(i) ~> (pc = "feeds" /\ feed_idx = i + 2)
  /\ \A i \in 1..Len(RSS_FEEDS) : FeedFailed(i) ~> RunCompleted

\* the retrieval of the last feed failed, an earlier feed had delivered an entry
\* that was added, and the run saved it
FeedFailureIsolationWitness ==
  /\ RunCompleted
  /\ parsed.bozo
  /\ feed_idx = Len(RSS_FEEDS) + 1
  /\ last.step = "added"
  /\ InSeq(last.added, Saved)

EnrichOnceAcrossRuns ==
  /\ (pc = "feeds" /\ last.step = "added") => last.id \notin hist.enriched
  /\ RunCompleted =>
       \A i \in 1..Len(new_articles) : Get(new_articles[i], "id", << >>) \in IdsOf(Saved)

====
